---- MODULE Spec2Model ----
(***************************************************************************)
(* Model of the admission / queueing / execution / notification core of    *)
(* app.py: the queue_task wrapper (Admission Gateway) running on request   *)
(* threads, the process_queue daemon thread (Worker Loop) and the          *)
(* ThreadPoolExecutor running send_webhook_with_retry (Notification        *)
(* Dispatcher).                                                            *)
(*                                                                         *)
(* Every statement that touches shared state (task_queue, the pool's work  *)
(* queue) is its own atomic step, so that the interleavings of request     *)
(* threads, the worker thread and the pool threads are all explored.       *)
(* The clock is an input: each difference of two time.time() readings is   *)
(* drawn from 0..MaxElapsed when the later reading is taken, in units of    *)
(* one millisecond, so that round(x, 3) of a duration in seconds is exact.  *)
(* admitted_at (start_time) is therefore not stored in the job unit.        *)
(***************************************************************************)
EXTENDS Integers, Sequences, FiniteSets, TLC

(* ------------------------------ bounds --------------------------------- *)

\* number of HTTP requests (request threads) in a run
NumRequests == 2

\* MAX_QUEUE_LENGTH is drawn from 0..MaxCapacity at startup
MaxCapacity == 1

\* the time between two consecutive clock readings is 0..MaxElapsed
MaxElapsed == 1

\* size of the notification thread pool (environment MAX_WORKERS)
MAX_WORKERS == 1

(* --------------------------- program constants ------------------------- *)

\* default of send_webhook_with_retry's max_retries parameter
max_retries == 3

\* os.environ.get('MAX_QUEUE_LENGTH', 50)
DefaultQueueLength == 50

\* os.environ.get('MAX_WORKERS', 10)
DefaultMaxWorkers == 10

(* ------------------------------ values --------------------------------- *)

Requests == 1..NumRequests

\* Python's None, and a key that is missing from the payload
None == "None"
Absent == "<absent>"

\* request.json: optional id, optional webhook_url (possibly the empty string)
Payloads == { [id |-> "abc",  webhook_url |-> "http://x/cb"],
              [id |-> Absent, webhook_url |-> ""],
              [id |-> "abc",  webhook_url |-> Absent] }

\* dict.get(key): None when the key is missing
DictGet(d, key) == IF d[key] = Absent THEN None ELSE d[key]

\* `key in d`
HasKey(d, key) == d[key] # Absent

\* truthiness of data.get("webhook_url")
Truthy(v) == v # None /\ v # ""

\* What a call of the wrapped operation f can do: return a tuple (a well
\* formed 3-tuple, or a malformed shorter one) or raise an exception whose
\* str() is `text`.
Outcomes ==
    { [raises |-> FALSE, text |-> "", result |-> <<"ok", "test", 200>>],
      [raises |-> FALSE, text |-> "", result |-> <<"bad input", "test", 400>>],
      [raises |-> FALSE, text |-> "", result |-> <<"ok", "test">>],
      [raises |-> TRUE,  text |-> "boom", result |-> <<>>] }

(* ------------------------------ state ---------------------------------- *)

VARIABLES
    environ,           \* os.environ: the text of MAX_QUEUE_LENGTH and MAX_WORKERS
    startup,           \* the import of app.py: pc, parsed MAX_WORKERS, warning
    MAX_QUEUE_LENGTH,  \* parse_queue_length() at import time
    task_queue,        \* Queue(maxsize=MAX_QUEUE_LENGTH): sequence of job units
    unfinished,        \* task_queue.unfinished_tasks
    req,               \* per request thread: pc and the wrapper's locals
    resp,              \* per request: what the wrapper returned (or raised)
    worker,            \* process_queue thread: pc and locals
    work_queue,        \* thread_pool's internal (unbounded) queue of work items
    pool,              \* thread_pool's worker threads
    submitted,         \* per job: number of thread_pool.submit calls made for it
    put_order,         \* job ids in the order task_queue.put returned
    start_order,       \* job ids in the order task_func() was called
    storage_env,       \* which storage variables of os.environ are non-empty
    route              \* one call of download_video (routes/v1/media/download)

vars == <<environ, startup, MAX_QUEUE_LENGTH, task_queue, unfinished, req, resp, worker,
          work_queue, pool, submitted, put_order, start_order,
          storage_env, route>>

Slots == 1..MAX_WORKERS

NoData == [id |-> Absent, webhook_url |-> Absent]

\* a request thread outside the wrapper.  Inside it: data and bypass_queue
\* are the wrapper's inputs, depth_seen is the value task_queue.qsize()
\* returned at line 141 and ops_seen the number of puts and gets the queue
\* had completed at that moment.
NoRequest(pc) == [pc |-> pc, data |-> NoData, bypass_queue |-> FALSE,
                  depth_seen |-> 0, ops_seen |-> 0]

NoResp == [kind |-> "none", status |-> 0, error |-> "", body |-> [code |-> 0]]

NoJob == [job_id |-> 0, data |-> NoData]

\* the worker thread at the top of its loop; `log` holds the lines the
\* current iteration has written with logger.error / logger.critical
IdleWorker == [pc |-> "get", job |-> NoJob, queue_time |-> 0,
               response_data |-> [code |-> 0],
               log |-> <<>>]

\* a pool thread with no work item.  While it runs send_webhook_with_retry:
\* attempt is the loop variable, calls counts the send_webhook calls made,
\* sleeps lists the arguments of time.sleep, warnings the attempt numbers
\* written by logger.warning.
\* The payload argument is the envelope of one job, never changed after it is
\* built; the pool keeps it by the job_id it carries.
IdleSlot == [state |-> "idle", url |-> "", payload |-> 0,
             attempt |-> 0, calls |-> 0, sleeps |-> <<>>, warnings |-> <<>>]

\* task_queue.qsize()
qsize == Len(task_queue)

\* 2 ** n
RECURSIVE Pow2(_)
Pow2(n) == IF n = 0 THEN 1 ELSE 2 * Pow2(n - 1)

(* ------------- download route: values (routes/.../yt_dlp.py) ----------- *)

\* the environment variables config.py reads for the storage provider
StorageVars == {"S3_BUCKET_NAME", "S3_ENDPOINT_URL", "S3_ACCESS_KEY",
                "S3_SECRET_KEY", "GCP_BUCKET_NAME", "GCP_SA_CREDENTIALS"}

\* no call of download_video is in progress
IdleRoute == [pc |-> "idle",
              data |-> [present |-> FALSE, fields |-> {}, options |-> {},
                        webhook_url |-> ""],
              elapsed |-> 0, status |-> 0, error |-> "",
              downloads |-> 0, uploads |-> 0, webhooks |-> 0]

\* the download route at rest, in an environment with every storage
\* variable set
RouteAtRest ==
    /\ storage_env = [v \in StorageVars |-> TRUE]
    /\ route = IdleRoute

(* --------------------- configuration: module import -------------------- *)

\* an environment variable that is not set
Unset == "<unset>"

\* the integers whose decimal text the environment may hold
EnvInts == -2..3

\* the texts the environment may hold: decimal integers and texts int() rejects
EnvTexts == {ToString(n) : n \in EnvInts} \cup {"abc", "", "1.5"}

\* int(text) succeeds
IsIntText(text) == \E n \in EnvInts : ToString(n) = text

\* int(text) for a text it accepts
PyInt(text) == CHOOSE n \in EnvInts : ToString(n) = text

Max(a, b) == IF a >= b THEN a ELSE b

\* lines 20-26: parse_queue_length(); warned = the warning of line 25 is logged
parse_queue_length(text) ==
    IF text = Unset
      THEN [value |-> Max(0, DefaultQueueLength), warned |-> FALSE]
      ELSE IF IsIntText(text)
        THEN [value |-> Max(0, PyInt(text)), warned |-> FALSE]
        ELSE [value |-> DefaultQueueLength, warned |-> TRUE]

\* line 29: int(os.environ.get('MAX_WORKERS', 10)); raises = ValueError
parse_max_workers(text) ==
    IF text = Unset
      THEN [value |-> DefaultMaxWorkers, raises |-> FALSE]
      ELSE IF IsIntText(text)
        THEN [value |-> PyInt(text), raises |-> FALSE]
        ELSE [value |-> 0, raises |-> TRUE]

\* the module is imported and create_app() has returned
Running == [pc |-> "running", max_workers |-> MAX_WORKERS, warned |-> FALSE]

\* the state of queue, worker, pool and requests when create_app() returns
Constructed ==
    /\ task_queue = <<>>
    /\ unfinished = 0
    /\ req = [r \in Requests |-> NoRequest("idle")]
    /\ resp = [r \in Requests |-> NoResp]
    /\ worker = IdleWorker
    /\ work_queue = <<>>
    /\ pool = [w \in Slots |-> IdleSlot]
    /\ submitted = [j \in Requests |-> 0]
    /\ put_order = <<>>
    /\ start_order = <<>>

\* the import begins: any setting of the two environment variables
InitConfig ==
    /\ environ \in [MAX_QUEUE_LENGTH : EnvTexts \cup {Unset},
                     MAX_WORKERS : EnvTexts \cup {Unset}]
    /\ startup = [pc |-> "line 28", max_workers |-> 0, warned |-> FALSE]
    /\ MAX_QUEUE_LENGTH = 0
    /\ Constructed
    /\ RouteAtRest

\* line 28: MAX_QUEUE_LENGTH = parse_queue_length()
ImportQueueLength ==
    /\ startup.pc = "line 28"
    /\ MAX_QUEUE_LENGTH' = parse_queue_length(environ.MAX_QUEUE_LENGTH).value
    /\ startup' = [startup EXCEPT
                     !.pc = "line 29",
                     !.warned = parse_queue_length(environ.MAX_QUEUE_LENGTH).warned]
    /\ UNCHANGED <<storage_env, route, environ, task_queue, unfinished, req, resp, worker,
                   work_queue, pool, submitted, put_order, start_order>>

\* line 29: MAX_WORKERS = int(...); a ValueError ends the import
ImportMaxWorkers ==
    /\ startup.pc = "line 29"
    /\ startup' = [startup EXCEPT
                     !.pc = IF parse_max_workers(environ.MAX_WORKERS).raises
                              THEN "failed" ELSE "create_app",
                     !.max_workers = parse_max_workers(environ.MAX_WORKERS).value]
    /\ UNCHANGED <<storage_env, route, environ, MAX_QUEUE_LENGTH, task_queue, unfinished, req, resp,
                   worker, work_queue, pool, submitted, put_order, start_order>>

\* lines 42-48 and 211: create_app(); ThreadPoolExecutor raises ValueError
\* for max_workers <= 0
CreateApp ==
    /\ startup.pc = "create_app"
    /\ startup' = [startup EXCEPT
                     !.pc = IF startup.max_workers <= 0 THEN "failed" ELSE "running"]
    /\ UNCHANGED <<storage_env, route, environ, MAX_QUEUE_LENGTH, task_queue, unfinished, req, resp,
                   worker, work_queue, pool, submitted, put_order, start_order>>

NextConfig == ImportQueueLength \/ ImportMaxWorkers \/ CreateApp

SpecConfig == InitConfig /\ [][NextConfig]_vars

(* ------------------------- the running service -------------------------- *)

\* create_app() has returned, with MAX_QUEUE_LENGTH set to 0..MaxCapacity in
\* the environment and a pool of MAX_WORKERS threads
Init ==
    /\ \E c \in 0..MaxCapacity :
          /\ environ = [MAX_QUEUE_LENGTH |-> ToString(c),
                        MAX_WORKERS |-> ToString(MAX_WORKERS)]
          /\ MAX_QUEUE_LENGTH = parse_queue_length(ToString(c)).value
    /\ startup = Running
    /\ task_queue = <<>>
    /\ unfinished = 0
    /\ req = [r \in Requests |-> NoRequest("idle")]
    /\ resp = [r \in Requests |-> NoResp]
    /\ worker = IdleWorker
    /\ work_queue = <<>>
    /\ pool = [w \in Slots |-> IdleSlot]
    /\ submitted = [j \in Requests |-> 0]
    /\ put_order = <<>>
    /\ start_order = <<>>
    /\ RouteAtRest

Elapsed == 0..MaxElapsed

(* ----------------- Admission Gateway: queue_task.wrapper ---------------- *)

\* The exception a tuple index raises when the result is too short; the
\* envelope reads response[1] / response[2] (0-based), i.e. needs 3 elements.
IndexErrorText == "tuple index out of range"

\* lines 125-138: the body and status returned on the bypass path
BypassEnvelope(job_id, data, response, run_time, depth) ==
    [status |-> response[3],
     body |-> [code |-> response[3],
               id |-> DictGet(data, "id"),
               job_id |-> job_id,
               response |-> IF response[3] = 200 THEN response[1] ELSE None,
               message |-> IF response[3] = 200 THEN "success" ELSE response[1],
               run_time |-> run_time,
               queue_time |-> 0,
               total_time |-> run_time,
               pid |-> "pid",
               queue_id |-> "queue_id",
               queue_length |-> depth,
               build_number |-> "build"]]

\* lines 142-151: the overflow body
OverflowMessage(n) == "MAX_QUEUE_LENGTH (" \o ToString(n) \o ") reached"

OverflowBody(job_id, data, depth) ==
    [status |-> 429,
     body |-> [code |-> 429,
               id |-> DictGet(data, "id"),
               job_id |-> job_id,
               message |-> OverflowMessage(MAX_QUEUE_LENGTH),
               pid |-> "pid",
               queue_id |-> "queue_id",
               queue_length |-> depth,
               build_number |-> "build"]]

\* a 202 body that adds the job to a depth that already counts it
AcceptedBodyCountsTwice(job_id, data, depth) ==
    [status |-> 202,
     body |-> [code |-> 202,
               id |-> DictGet(data, "id"),
               job_id |-> job_id,
               message |-> "processing",
               pid |-> "pid",
               queue_id |-> "queue_id",
               max_queue_length |-> MAX_QUEUE_LENGTH,
               queue_length |-> depth + 1,
               build_number |-> "build"]]

\* lines 156-166: the body returned after the put
AcceptedBody(job_id, data, depth) ==
    [status |-> 202,
     body |-> [code |-> 202,
               id |-> DictGet(data, "id"),
               job_id |-> job_id,
               message |-> "processing",
               pid |-> "pid",
               queue_id |-> "queue_id",
               max_queue_length |-> MAX_QUEUE_LENGTH,
               queue_length |-> depth,
               build_number |-> "build"]]

Returned(r, out) ==
    resp' = [resp EXCEPT ![r] = [kind |-> "returned", status |-> out.status,
                                 error |-> "", body |-> out.body]]

Raised(r, text) ==
    resp' = [resp EXCEPT ![r] = [kind |-> "raised", status |-> 0,
                                 error |-> text, body |-> [code |-> 0]]]

\* a bypass condition that ignores the operation's bypass_queue flag
TakesBypassKeyOnly(bypass_queue, data) == ~HasKey(data, "webhook_url")

\* a bypass condition that ignores a payload without webhook_url
TakesBypassFlagOnly(bypass_queue, data) == bypass_queue

\* line 122: the bypass condition
TakesBypass(bypass_queue, data) == bypass_queue \/ ~HasKey(data, "webhook_url")

\* lines 116-123: a request enters the wrapper; job_id is unique per request
\* (uuid4), requests are numbered in order of arrival.  On the bypass path f
\* is called at once (pc "bypass" = f is executing on the request thread).
Arrive(r, data, bypass_queue) ==
    /\ req[r].pc = "idle"
    /\ \A q \in Requests : q < r => req[q].pc # "idle"
    /\ req' = [req EXCEPT ![r] =
                 [NoRequest(IF TakesBypass(bypass_queue, data)
                              THEN "bypass" ELSE "check")
                    EXCEPT !.data = data, !.bypass_queue = bypass_queue]]
    /\ UNCHANGED <<storage_env, route, environ, startup, MAX_QUEUE_LENGTH, task_queue, unfinished, resp, worker,
                   work_queue, pool, submitted, put_order, start_order>>

\* lines 123-138: f returns (or raises) on the request thread, run_time
\* after the wrapper took start_time
BypassReturn(r, o, run_time) ==
    /\ req[r].pc = "bypass"
    /\ req' = [req EXCEPT ![r].pc = "done"]
    /\ IF o.raises
         THEN Raised(r, o.text)
         ELSE IF Len(o.result) < 3
           THEN Raised(r, IndexErrorText)
           ELSE Returned(r, BypassEnvelope(r, req[r].data, o.result,
                                           run_time, qsize))
    /\ UNCHANGED <<storage_env, route, environ, startup, MAX_QUEUE_LENGTH, task_queue, unfinished, worker,
                   work_queue, pool, submitted, put_order, start_order>>

\* an overflow check that lets one job too many through
IsFullOffByOne(depth) == MAX_QUEUE_LENGTH > 0 /\ depth > MAX_QUEUE_LENGTH

\* an overflow check that forgets that capacity 0 means unbounded
IsFullNoZeroGuard(depth) == depth >= MAX_QUEUE_LENGTH

\* line 141: the overflow check
IsFull(depth) == MAX_QUEUE_LENGTH > 0 /\ depth >= MAX_QUEUE_LENGTH

\* number of put and get calls the queue has completed
QueueOps == Len(put_order) + Len(start_order)

Check(r) ==
    /\ req[r].pc = "check"
    /\ req' = [req EXCEPT ![r].pc = IF IsFull(qsize) THEN "reject" ELSE "put",
                           ![r].depth_seen = qsize,
                           ![r].ops_seen = QueueOps]
    /\ UNCHANGED <<storage_env, route, environ, startup, MAX_QUEUE_LENGTH, task_queue, unfinished, resp, worker,
                   work_queue, pool, submitted, put_order, start_order>>

\* lines 142-151: build the 429 body (reads qsize() again)
Reject(r) ==
    /\ req[r].pc = "reject"
    /\ req' = [req EXCEPT ![r].pc = "done"]
    /\ Returned(r, OverflowBody(r, req[r].data, qsize))
    /\ UNCHANGED <<storage_env, route, environ, startup, MAX_QUEUE_LENGTH, task_queue, unfinished, worker,
                   work_queue, pool, submitted, put_order, start_order>>

\* a put that appends whatever the depth, as on an unbounded queue
PutNeverBlocks == FALSE

\* Queue.put blocks while a bounded queue is full (maxsize 0 = unbounded)
PutBlocks == MAX_QUEUE_LENGTH > 0 /\ qsize >= MAX_QUEUE_LENGTH

\* line 154: task_queue.put((job_id, data, lambda, start_time))
Put(r) ==
    /\ req[r].pc = "put"
    /\ ~PutBlocks
    /\ task_queue' = Append(task_queue, [job_id |-> r, data |-> req[r].data])
    /\ unfinished' = unfinished + 1
    /\ put_order' = Append(put_order, r)
    /\ req' = [req EXCEPT ![r].pc = "respond"]
    /\ UNCHANGED <<storage_env, route, environ, startup, MAX_QUEUE_LENGTH, resp, worker, work_queue, pool,
                   submitted, start_order>>

\* lines 156-166: build the 202 body (reads qsize() after the put)
Respond(r) ==
    /\ req[r].pc = "respond"
    /\ req' = [req EXCEPT ![r].pc = "done"]
    /\ Returned(r, AcceptedBody(r, req[r].data, qsize))
    /\ UNCHANGED <<storage_env, route, environ, startup, MAX_QUEUE_LENGTH, task_queue, unfinished, worker,
                   work_queue, pool, submitted, put_order, start_order>>

\* the HTTP layer has sent what the wrapper returned (or the exception it
\* raised); the request thread is gone
Finish(r) ==
    /\ req[r].pc = "done"
    /\ req' = [req EXCEPT ![r] = NoRequest("closed")]
    /\ resp' = [resp EXCEPT ![r] = NoResp]
    /\ UNCHANGED <<storage_env, route, environ, startup, MAX_QUEUE_LENGTH, task_queue, unfinished, worker,
                   work_queue, pool, submitted, put_order, start_order>>

(* ---------------------- Worker Loop: process_queue ---------------------- *)

\* a worker that does not replace a raised exception by the failure result
TaskResponseUncaught(o) == o.result

\* lines 61-65: the result of task_func(), or the synthetic failure result
TaskResponse(o) == IF o.raises THEN <<o.text, "error", 500>> ELSE o.result

\* an envelope that carries the result body as response whatever the code
ResponseDataAlwaysBody(job, response, run_time, queue_time, total_time, depth) ==
    [endpoint |-> response[2],
     code |-> response[3],
     id |-> DictGet(job.data, "id"),
     job_id |-> job.job_id,
     response |-> response[1],
     message |-> IF response[3] = 200 THEN "success" ELSE response[1],
     pid |-> "pid",
     queue_id |-> "queue_id",
     run_time |-> run_time,
     queue_time |-> queue_time,
     total_time |-> total_time,
     queue_length |-> depth,
     build_number |-> "build"]

\* lines 70-84: the envelope delivered to the webhook
ResponseData(job, response, run_time, queue_time, total_time, depth) ==
    [endpoint |-> response[2],
     code |-> response[3],
     id |-> DictGet(job.data, "id"),
     job_id |-> job.job_id,
     response |-> IF response[3] = 200 THEN response[1] ELSE None,
     message |-> IF response[3] = 200 THEN "success" ELSE response[1],
     pid |-> "pid",
     queue_id |-> "queue_id",
     run_time |-> run_time,
     queue_time |-> queue_time,
     total_time |-> total_time,
     queue_length |-> depth,
     build_number |-> "build"]

\* a get that returns the oldest job unit and leaves it on the queue
DequeuePeek(q) == [item |-> Head(q), rest |-> q]

\* a get that returns the newest item instead of the oldest
DequeueNewest(q) == [item |-> q[Len(q)], rest |-> SubSeq(q, 1, Len(q) - 1)]

\* Queue.get on a non-empty queue: the oldest item, and the queue without it
Dequeue(q) == [item |-> Head(q), rest |-> Tail(q)]

\* a consumer that takes the next job while the previous one still executes
WorkerFreeWhileRunning == worker.pc \in {"get", "run"}

\* lines 52-54: the single worker thread calls get() only at the top of its
\* loop, after the previous iteration has ended
WorkerFree == worker.pc = "get"

\* the worker thread ends at an error of the envelope
AfterEnvelopeErrorDies == "dead"

\* the error skips the finally block and the loop waits on the queue again
AfterEnvelopeErrorSkipsFinally == "get"

\* lines 100-104: except Exception logs the error, then finally runs
\* task_queue.task_done() and the while loop goes on
AfterEnvelopeError == "task_done"

\* lines 54-62: task_queue.get() returns the oldest job unit, queue_time
\* after its admission; task_func() is called (pc "run" = it executes).
Get(queue_time) ==
    /\ WorkerFree
    /\ task_queue # <<>>
    /\ task_queue' = Dequeue(task_queue).rest
    /\ worker' = [worker EXCEPT !.pc = "run",
                                !.job = Dequeue(task_queue).item,
                                !.queue_time = queue_time]
    /\ start_order' = Append(start_order, Dequeue(task_queue).item.job_id)
    /\ UNCHANGED <<storage_env, route, environ, startup, MAX_QUEUE_LENGTH, unfinished, req, resp, work_queue,
                   pool, submitted, put_order>>

\* lines 62-84 (and 100-101): task_func() returns or raises; the envelope is
\* built.  A raise is logged (line 64) and replaced by the synthetic result.
\* A result with fewer than 3 elements makes the envelope raise IndexError,
\* which the handler at line 100 logs; control goes to finally.
\* run_time is the time from run_start_time to the reading of line 67; gap
\* is the time that passed between the readings of lines 56 and 57 and of
\* lines 67 and 68, so total_time = queue_time + run_time + gap.
TaskReturn(o, run_time, gap) ==
    /\ worker.pc = "run"
    /\ LET response == TaskResponse(o)
           logged == IF o.raises THEN <<"Task failed">> ELSE <<>>
       IN
         IF Len(response) < 3
           THEN worker' = [worker EXCEPT
                     !.pc = AfterEnvelopeError,
                     !.log = Append(logged, "Unexpected error in task processing")]
           ELSE worker' = [worker EXCEPT
                     !.pc = "submit",
                     !.log = logged,
                     !.response_data =
                        ResponseData(worker.job, response,
                                     run_time,
                                     worker.queue_time,
                                     worker.queue_time + run_time + gap,
                                     qsize)]
    /\ UNCHANGED <<storage_env, route, environ, startup, MAX_QUEUE_LENGTH, task_queue, unfinished, req, resp,
                   work_queue, pool, submitted, put_order, start_order>>

\* line 97: the condition under which a notification is submitted
WantsWebhook(data) == Truthy(DictGet(data, "webhook_url"))

\* a hand-off that waits until the pool has taken every earlier work item
SubmitNeedsEmptyWorkQueue == work_queue = <<>>

\* a hand-off that waits for an idle pool thread
SubmitNeedsIdleThread == \E w \in Slots : pool[w].state = "idle"

\* ThreadPoolExecutor.submit puts the work item on the pool's unbounded work
\* queue: it can always proceed, whatever the pool threads are doing.
SubmitReady == TRUE

\* lines 96-98: thread_pool.submit(send_webhook_with_retry, url, response_data)
Submit ==
    /\ worker.pc = "submit"
    /\ IF WantsWebhook(worker.job.data)
         THEN /\ SubmitReady
              /\ work_queue' = Append(work_queue,
                                      [url |-> worker.job.data.webhook_url,
                                       payload |-> worker.response_data.job_id])
              /\ submitted' = [submitted EXCEPT ![worker.job.job_id] = @ + 1]
         ELSE UNCHANGED <<work_queue, submitted>>
    /\ worker' = [worker EXCEPT !.pc = "task_done"]
    /\ UNCHANGED <<storage_env, route, environ, startup, MAX_QUEUE_LENGTH, task_queue, unfinished, req, resp,
                   pool, put_order, start_order>>

\* lines 103-104: finally: task_queue.task_done(); back to the top of the loop
TaskDone ==
    /\ worker.pc = "task_done"
    /\ unfinished' = unfinished - 1
    /\ worker' = IdleWorker
    /\ UNCHANGED <<storage_env, route, environ, startup, MAX_QUEUE_LENGTH, task_queue, req, resp, work_queue,
                   pool, submitted, put_order, start_order>>

(* ------------- Notification Dispatcher: send_webhook_with_retry --------- *)

\* a pool thread picks the oldest work item and enters the retry loop with
\* attempt = 0
PoolTake(w) ==
    /\ pool[w].state = "idle"
    /\ work_queue # <<>>
    /\ pool' = [pool EXCEPT ![w] = [IdleSlot EXCEPT
                                      !.state = "attempt",
                                      !.url = Head(work_queue).url,
                                      !.payload = Head(work_queue).payload]]
    /\ work_queue' = Tail(work_queue)
    /\ UNCHANGED <<storage_env, route, environ, startup, MAX_QUEUE_LENGTH, task_queue, unfinished, req, resp,
                   worker, submitted, put_order, start_order>>

\* a retry loop that makes one attempt too many
HasNextAttemptInclusive(attempt) == attempt < max_retries

\* line 88: `for attempt in range(max_retries)` has another iteration
HasNextAttempt(attempt) == attempt + 1 < max_retries

\* a backoff counted from attempt 1: 2, 4, 8
BackoffOneBased(attempt) == Pow2(attempt + 1)

\* line 94: the argument of time.sleep
Backoff(attempt) == Pow2(attempt)

\* lines 89-93: one call of send_webhook(url, payload); ok = it returned and
\* so does the function, otherwise it raised and the warning
\* "Webhook attempt <attempt+1> failed" is logged
Attempt(w, ok) ==
    /\ pool[w].state = "attempt"
    /\ IF ok
         THEN pool' = [pool EXCEPT ![w].state = "delivered",
                                   ![w].calls = @ + 1]
         ELSE pool' = [pool EXCEPT ![w].state = "sleep",
                                   ![w].calls = @ + 1,
                                   ![w].warnings = Append(@, pool[w].attempt + 1)]
    /\ UNCHANGED <<storage_env, route, environ, startup, MAX_QUEUE_LENGTH, task_queue, unfinished, req, resp,
                   worker, work_queue, submitted, put_order, start_order>>

\* line 94 and the loop header: time.sleep(2 ** attempt), then the next
\* attempt, or the end of the loop (the function returns None)
Sleep(w) ==
    /\ pool[w].state = "sleep"
    /\ pool' = [pool EXCEPT
                  ![w].sleeps = Append(@, Backoff(pool[w].attempt)),
                  ![w].state = IF HasNextAttempt(pool[w].attempt)
                                 THEN "attempt" ELSE "exhausted",
                  ![w].attempt = IF HasNextAttempt(pool[w].attempt)
                                   THEN @ + 1 ELSE @]
    /\ UNCHANGED <<storage_env, route, environ, startup, MAX_QUEUE_LENGTH, task_queue, unfinished, req, resp,
                   worker, work_queue, submitted, put_order, start_order>>

\* send_webhook_with_retry has returned: the work item is dropped and the
\* pool thread waits for the next one
PoolReturn(w) ==
    /\ pool[w].state \in {"delivered", "exhausted"}
    /\ pool' = [pool EXCEPT ![w] = IdleSlot]
    /\ UNCHANGED <<storage_env, route, environ, startup, MAX_QUEUE_LENGTH, task_queue, unfinished, req, resp,
                   worker, work_queue, submitted, put_order, start_order>>

(* --------------------------- specification ------------------------------ *)

Next ==
    \/ \E r \in Requests, data \in Payloads, b \in BOOLEAN : Arrive(r, data, b)
    \/ \E r \in Requests, o \in Outcomes, d \in Elapsed : BypassReturn(r, o, d)
    \/ \E r \in Requests : Check(r)
    \/ \E r \in Requests : Reject(r)
    \/ \E r \in Requests : Put(r)
    \/ \E r \in Requests : Respond(r)
    \/ \E r \in Requests : Finish(r)
    \/ \E d \in Elapsed : Get(d)
    \/ \E o \in Outcomes, d \in Elapsed, g \in Elapsed : TaskReturn(o, d, g)
    \/ Submit
    \/ TaskDone
    \/ \E w \in Slots : PoolTake(w)
    \/ \E w \in Slots, ok \in BOOLEAN : Attempt(w, ok)
    \/ \E w \in Slots : Sleep(w)
    \/ \E w \in Slots : PoolReturn(w)

Spec == Init /\ [][Next]_vars

(* ------------------------------ properties ------------------------------ *)

Range(seq) == {seq[i] : i \in 1..Len(seq)}

\* the request is inside the wrapper
Active(r) == req[r].pc \notin {"idle", "closed"}

\* the request is one the gateway must not queue: its operation is marked
\* bypass_queue or its payload has no webhook_url
BypassEligible(r) == req[r].bypass_queue \/ req[r].data.webhook_url = Absent

\* the caller's id as it is echoed: null when the payload has none
EchoedId(r) == IF req[r].data.id = Absent THEN None ELSE req[r].data.id

\* the fields of the three bodies of section 6
BypassFields == {"code", "id", "job_id", "response", "message", "run_time",
                 "queue_time", "total_time", "pid", "queue_id", "queue_length",
                 "build_number"}
AcceptedFields == {"code", "id", "job_id", "message", "pid", "queue_id",
                   "max_queue_length", "queue_length", "build_number"}
OverflowFields == {"code", "id", "job_id", "message", "pid", "queue_id",
                   "queue_length", "build_number"}

\* C1: the worker loop starts the jobs in exactly the order in which they
\* were put on the queue: the sequence of started jobs is always a prefix of
\* the sequence of admitted jobs.
C1_FifoStartOrder ==
    /\ Len(start_order) <= Len(put_order)
    /\ \A i \in 1..Len(start_order) : start_order[i] = put_order[i]

\* two jobs were admitted and both have been started
C1_Witness == Len(start_order) >= 2 /\ Len(put_order) >= 2

\* C2 (as claimed): an admission that finds the depth equal to the capacity
\* C > 0 is answered 429 with the message naming C, puts nothing on the
\* queue, the depth never exceeds C, and the body reports queue_length = C.
C2_RejectReportsCapacity ==
    \A r \in Requests :
        (/\ req[r].pc = "done"
         /\ ~BypassEligible(r)
         /\ MAX_QUEUE_LENGTH > 0
         /\ req[r].depth_seen = MAX_QUEUE_LENGTH)
        => /\ resp[r].kind = "returned"
           /\ resp[r].status = 429
           /\ resp[r].body.message =
                  "MAX_QUEUE_LENGTH (" \o ToString(MAX_QUEUE_LENGTH) \o ") reached"
           /\ r \notin Range(put_order)
           /\ qsize <= MAX_QUEUE_LENGTH
           /\ resp[r].body.queue_length = MAX_QUEUE_LENGTH

C2_Step(r) ==
    /\ (/\ req[r].pc = "check"
        /\ req'[r].pc # "check"
        /\ MAX_QUEUE_LENGTH > 0
        /\ qsize = MAX_QUEUE_LENGTH)
       => /\ req'[r].pc = "reject"
          /\ task_queue' = task_queue
          /\ put_order' = put_order
    /\ (req[r].pc = "reject" /\ req'[r].pc # "reject")
       => /\ req'[r].pc = "done"
          /\ resp'[r].kind = "returned"
          /\ resp'[r].status = 429
          /\ resp'[r].body.code = 429
          /\ resp'[r].body.message =
                 "MAX_QUEUE_LENGTH (" \o ToString(MAX_QUEUE_LENGTH) \o ") reached"
          /\ task_queue' = task_queue
          /\ put_order' = put_order
          /\ r \notin Range(put_order)
          /\ resp'[r].body.queue_length = qsize
          /\ resp'[r].body.queue_length <= MAX_QUEUE_LENGTH
          /\ (QueueOps = req[r].ops_seen
                => resp'[r].body.queue_length = MAX_QUEUE_LENGTH)

\* C2 (amended): an admission that finds the depth equal to the capacity
\* C > 0 is answered 429 with the message naming C and leaves the queue as
\* it is; the queue_length in the body is the depth read when the body is
\* built: at most C, and equal to C when no job was dequeued since the check.
C2_RejectAtCapacity == [][\A r \in Requests : C2_Step(r)]_vars

\* a 429 was returned while the queue was still full
C2_Witness ==
    \E r \in Requests :
        /\ req[r].pc = "done"
        /\ resp[r].status = 429
        /\ resp[r].body.queue_length = MAX_QUEUE_LENGTH
        /\ qsize = MAX_QUEUE_LENGTH

\* C3: with MAX_QUEUE_LENGTH = 0 no admission is rejected: no request is on
\* the 429 path, the put never has to wait, and every request that is not
\* bypass-eligible is put on the queue and answered 202.
C3_UnboundedNeverRejects ==
    MAX_QUEUE_LENGTH = 0 =>
        /\ ~PutBlocks
        /\ \A r \in Requests :
              /\ req[r].pc # "reject"
              /\ resp[r].status # 429
              /\ (req[r].pc = "done" /\ ~BypassEligible(r))
                 => /\ resp[r].status = 202
                    /\ r \in Range(put_order)

\* capacity 0, and a job is admitted with 202 on top of another waiting job
C3_Witness ==
    /\ MAX_QUEUE_LENGTH = 0
    /\ \E r \in Requests :
          /\ req[r].pc = "done"
          /\ resp[r].status = 202
          /\ resp[r].body.queue_length >= 2

C4_State(r) ==
    (Active(r) /\ BypassEligible(r))
    => /\ req[r].pc \in {"bypass", "done"}
       /\ r \notin Range(put_order)
       /\ \A i \in 1..Len(task_queue) : task_queue[i].job_id # r
       /\ worker.job.job_id # r
       /\ (req[r].pc = "done" /\ resp[r].kind = "returned")
          => /\ DOMAIN resp[r].body = BypassFields
             /\ resp[r].body.queue_time = 0
             /\ resp[r].body.total_time = resp[r].body.run_time
             /\ resp[r].status = resp[r].body.code

C4_Step(r) ==
    \A o \in Outcomes, d \in Elapsed :
        (BypassReturn(r, o, d) /\ ~o.raises /\ Len(o.result) = 3)
        => /\ resp'[r].kind = "returned"
           /\ resp'[r].status = o.result[3]
           /\ resp'[r].body.run_time = d
           /\ UNCHANGED <<task_queue, put_order, unfinished>>

C5_Step ==
    /\ \A o \in Outcomes, d \in Elapsed, g \in Elapsed :
          (TaskReturn(o, d, g) /\ o.raises)
          => /\ worker'.pc = "submit"
             /\ worker'.log = <<"Task failed">>
             /\ worker'.response_data.code = 500
             /\ worker'.response_data.response = None
             /\ worker'.response_data.message = o.text
             /\ worker'.response_data.endpoint = "error"
    /\ (/\ worker.pc = "submit"
        /\ worker'.pc # "submit"
        /\ worker.log = <<"Task failed">>)
       => /\ worker'.pc = "task_done"
          /\ worker'.log = worker.log
          /\ (worker.job.data.webhook_url \notin {Absent, ""})
             => work_queue' = Append(work_queue,
                                     [url |-> worker.job.data.webhook_url,
                                      payload |-> worker.job.job_id])

\* C5: when a job's work raises, the worker builds the envelope with code
\* 500, response null and the error text as message (endpoint "error"), logs
\* the failure, and hands the envelope to the dispatcher as for any job.
C5_RaiseBecomes500 == [][C5_Step]_vars

\* a job that raised has had its 500 envelope submitted for notification
C5_Witness ==
    /\ worker.pc = "task_done"
    /\ worker.log = <<"Task failed">>
    /\ worker.response_data.code = 500
    /\ submitted[worker.job.job_id] = 1

\* C6: every invocation of the wrapper that has ended has returned one of
\* the three structured bodies (bypass envelope, 202, 429) with an HTTP
\* status equal to the body's code, also when the wrapped operation failed
\* on the bypass path.
C6_ThreeStructuredResponses ==
    \A r \in Requests :
        req[r].pc = "done"
        => /\ resp[r].kind = "returned"
           /\ resp[r].status = resp[r].body.code
           /\ DOMAIN resp[r].body =
                 CASE resp[r].status = 202 -> AcceptedFields
                   [] resp[r].status = 429 -> OverflowFields
                   [] OTHER -> BypassFields

C7_State(w) ==
    (pool[w].state = "delivered" /\ pool[w].warnings = <<1, 2>>)
    => /\ pool[w].calls = 3
       /\ pool[w].sleeps = <<1, 2>>

C7_Step(w) ==
    pool[w].state = "delivered"
    => \/ pool'[w] = pool[w]
       \/ pool'[w] = IdleSlot

\* C7: a delivery whose first two attempts fail and whose third succeeds
\* has made exactly 3 calls of send_webhook and has slept 1 and then 2 time
\* units; after the success the pool thread makes no further call and no
\* further sleep for this task.
C7_TwoFailuresThenSuccess ==
    /\ [](\A w \in Slots : C7_State(w))
    /\ [][\A w \in Slots : C7_Step(w)]_vars

\* a delivery has succeeded at its third attempt
C7_Witness ==
    \E w \in Slots : pool[w].state = "delivered" /\ pool[w].warnings = <<1, 2>>

C8_State(w) ==
    /\ pool[w].state = "exhausted"
       => /\ pool[w].calls = max_retries
          /\ pool[w].warnings = [i \in 1..max_retries |-> i]
    /\ pool[w].calls <= max_retries
    /\ (pool[w].state = "delivered" /\ pool[w].calls = max_retries)
       => Len(pool[w].warnings) = max_retries - 1

C8_Step(w) ==
    /\ pool[w].state = "exhausted"
       => \/ pool'[w] = pool[w]
          \/ pool'[w] = IdleSlot
    /\ (pool'[w] # pool[w] /\ pool[w].state \in {"attempt", "sleep", "exhausted"})
       => /\ worker' = worker
          /\ task_queue' = task_queue
          /\ unfinished' = unfinished

C9_QueueLengthIsDepthPlusOne ==
    \A r \in Requests :
        (req[r].pc = "done" /\ resp[r].status = 202)
        => /\ resp[r].body.message = "processing"
           /\ resp[r].body.id = EchoedId(r)
           /\ resp[r].body.max_queue_length = MAX_QUEUE_LENGTH
           /\ resp[r].body.queue_length = req[r].depth_seen + 1

C9_Step(r) ==
    /\ (req[r].pc = "put" /\ req'[r].pc # "put")
       => /\ req'[r].pc = "respond"
          /\ MAX_QUEUE_LENGTH > 0 => req[r].depth_seen < MAX_QUEUE_LENGTH
    /\ (req[r].pc = "respond" /\ req'[r].pc # "respond")
       => /\ req'[r].pc = "done"
          /\ resp'[r].kind = "returned"
          /\ resp'[r].status = 202
          /\ DOMAIN resp'[r].body = AcceptedFields
          /\ resp'[r].body.code = 202
          /\ resp'[r].body.message = "processing"
          /\ resp'[r].body.id = EchoedId(r)
          /\ resp'[r].body.max_queue_length = MAX_QUEUE_LENGTH
          /\ resp'[r].body.queue_length = qsize
          /\ resp'[r].body.queue_length >= 0
          /\ MAX_QUEUE_LENGTH > 0
               => resp'[r].body.queue_length <= MAX_QUEUE_LENGTH
          /\ QueueOps = req[r].ops_seen + 1
               => resp'[r].body.queue_length = req[r].depth_seen + 1

\* C9 (amended): an admitted request is answered 202 with message
\* "processing", the caller's id and max_queue_length = C; queue_length is
\* the depth read after the put, between 0 and C (for C > 0), and equals
\* d + 1 when no other put or get happened between the capacity check and
\* that read.
C9_AcceptedReportsCurrentDepth == [][\A r \in Requests : C9_Step(r)]_vars

\* the scenario of the spec: id "abc", depth 0 at the check, queue_length 1
C9_Witness ==
    \E r \in Requests :
        /\ req[r].pc = "done"
        /\ resp[r].status = 202
        /\ resp[r].body.id = "abc"
        /\ req[r].depth_seen = 0
        /\ resp[r].body.queue_length = 1

\* C10: the hand-off to the dispatcher can always be taken, whatever the
\* pool threads are doing, and so can the next get when a job is waiting:
\* neither waits for a notification in delivery, in backoff or pending.
C10_HandOffNeverBlocks ==
    /\ worker.pc = "submit" => ENABLED Submit
    /\ (worker.pc = "get" /\ task_queue # <<>>) => ENABLED Get(0)

\* a later job is executing while every pool thread sleeps in backoff for
\* the notification of an earlier job
C10_Witness ==
    /\ worker.pc = "run"
    /\ Len(start_order) >= 2
    /\ \A w \in Slots : pool[w].state = "sleep"

\* the calls of work() in progress: inline on request threads and on the
\* worker thread
Executing ==
    Cardinality({r \in Requests : req[r].pc = "bypass"})
      + (IF worker.pc = "run" THEN 1 ELSE 0)

\* the jobs taken from the queue and not yet marked done
InFlight == Len(start_order) - (Len(put_order) - unfinished)

\* C11 (as claimed): in every reachable state at most one work() is
\* executing, counting request threads and the worker loop.
C11_AtMostOneWorkExecuting == Executing <= 1

\* C11 (amended): at most one job taken from the queue is in progress at any
\* time, the worker loop running them one after the other; work() of bypass
\* requests runs on the request threads, in parallel with it.
C11_OneQueuedJobAtATime ==
    /\ InFlight \in {0, 1}
    /\ worker.pc = "get" <=> InFlight = 0

\* the worker executes a queued job while a bypass request executes its own
C11_Witness ==
    /\ worker.pc = "run"
    /\ \E r \in Requests : req[r].pc = "bypass"

\* the value is no valid setting: text that is no integer, or (for
\* MAX_QUEUE_LENGTH) a negative integer
NotAnInteger(text) == text # Unset /\ ~IsIntText(text)
NegativeInteger(text) == text # Unset /\ IsIntText(text) /\ PyInt(text) < 0

\* C12: an invalid MAX_QUEUE_LENGTH or MAX_WORKERS never fails the startup:
\* the import ends running, with the default (50, 10) in place of a value
\* that is no valid non-negative integer.
C12_InvalidConfigFallsBack ==
    /\ (NotAnInteger(environ.MAX_QUEUE_LENGTH) \/ NotAnInteger(environ.MAX_WORKERS)
          \/ NegativeInteger(environ.MAX_QUEUE_LENGTH))
       => startup.pc # "failed"
    /\ startup.pc = "running"
       => /\ (NotAnInteger(environ.MAX_QUEUE_LENGTH)
                \/ NegativeInteger(environ.MAX_QUEUE_LENGTH))
             => MAX_QUEUE_LENGTH = 50
          /\ NotAnInteger(environ.MAX_WORKERS) => startup.max_workers = 10

\* the positions of the worker loop: waiting on the queue, executing
\* task_func, at the hand-off of line 97, in the finally block
LoopPositions == {"get", "run", "submit", "task_done"}

\* the worker is at one of the loop's positions and its next step can be taken
C13_State ==
    /\ worker.pc \in LoopPositions
    /\ (worker.pc = "get" /\ task_queue # <<>>) => ENABLED Get(0)
    /\ worker.pc = "run" => \A o \in Outcomes : ENABLED TaskReturn(o, 0, 0)
    /\ worker.pc = "submit" => ENABLED Submit
    /\ worker.pc = "task_done" => ENABLED TaskDone

\* a raise of task_func goes on to the hand-off, an error of the envelope is
\* logged and goes to the finally block, and the finally block is followed by
\* the wait on the queue
C13_Step ==
    /\ (worker.pc = "run" /\ worker'.pc # "run")
         => /\ worker'.pc \in {"submit", "task_done"}
            /\ worker'.pc = "task_done"
                 => "Unexpected error in task processing" \in Range(worker'.log)
            /\ "Task failed" \in Range(worker'.log) => worker'.pc = "submit"
    /\ (worker.pc = "submit" /\ worker'.pc # "submit") => worker'.pc = "task_done"
    /\ (worker.pc = "task_done" /\ worker'.pc # "task_done")
         => worker' = IdleWorker

\* C13: the worker loop never terminates: after a job whose work() raises and
\* after a job whose result is malformed the loop is back at waiting on the
\* queue and takes the next admitted job.
C13_LoopNeverTerminates == []C13_State /\ [][C13_Step]_vars

\* the first job had a callback URL and a malformed result (nothing was
\* submitted for it), and the worker executes the second job
C13_Witness ==
    /\ Len(start_order) = 2
    /\ worker.pc = "run"
    /\ worker.job.job_id = start_order[2]
    /\ Active(start_order[1])
    /\ WantsWebhook(req[start_order[1]].data)
    /\ submitted[start_order[1]] = 0

\* the jobs the worker loop has finished: started and no longer in its hands
Finished(j) ==
    /\ j \in Range(start_order)
    /\ ~(worker.pc # "get" /\ worker.job.job_id = j)

\* C14: every job admitted with 202 has exactly one notification task
\* submitted to the dispatcher once its work has finished, whatever the value
\* of webhook_url and the shape of the result.
C14_OneNotificationPerAdmittedJob ==
    \A j \in Requests :
        /\ submitted[j] <= 1
        /\ Finished(j) => submitted[j] = 1

\* C15: the gateway never calls task_queue.put on a full queue: for capacity
\* C > 0 every admission that reaches the put finds depth < C, so the put
\* returns immediately.
C15_PutNeverBlocks ==
    \A r \in Requests :
        (MAX_QUEUE_LENGTH > 0 /\ req[r].pc = "put") => qsize < MAX_QUEUE_LENGTH

\* the job ids waiting on the queue
Waiting == {task_queue[i].job_id : i \in 1..Len(task_queue)}

NoDuplicates(seq) ==
    \A i, j \in 1..Len(seq) : seq[i] = seq[j] => i = j

\* C16: every job unit put on the queue is consumed exactly once: no job is
\* started twice, none is started that was not put, and every job that was
\* put is either still waiting on the queue or was started (none is lost).
C16_ConsumedExactlyOnce ==
    /\ NoDuplicates(start_order)
    /\ Range(start_order) \subseteq Range(put_order)
    /\ Range(put_order) = Range(start_order) \cup Waiting
    /\ Range(start_order) \cap Waiting = {}
    /\ Len(put_order) = Len(start_order) + Len(task_queue)

\* two jobs were put, one of them was taken by the worker, the other waits
C16_Witness ==
    /\ Len(put_order) = 2
    /\ Len(start_order) = 1
    /\ Len(task_queue) = 1
    /\ worker.pc = "run"

(* ------------------------- fair scheduling ------------------------------ *)

\* progress does not depend on the measured durations (they are only copied
\* into the envelope), so the fair specification takes every duration as 0
Instant == {0}

\* the worker thread's steps
WorkerStep ==
    \/ \E queue_time \in Instant : Get(queue_time)
    \/ \E o \in Outcomes, run_time \in Instant, gap \in Instant :
          TaskReturn(o, run_time, gap)
    \/ Submit
    \/ TaskDone

NextFair ==
    \/ \E r \in Requests, data \in Payloads, b \in BOOLEAN : Arrive(r, data, b)
    \/ \E r \in Requests, o \in Outcomes, d \in Instant : BypassReturn(r, o, d)
    \/ \E r \in Requests : Check(r)
    \/ \E r \in Requests : Reject(r)
    \/ \E r \in Requests : Put(r)
    \/ \E r \in Requests : Respond(r)
    \/ \E r \in Requests : Finish(r)
    \/ WorkerStep
    \/ \E w \in Slots : PoolTake(w)
    \/ \E w \in Slots, ok \in BOOLEAN : Attempt(w, ok)
    \/ \E w \in Slots : Sleep(w)
    \/ \E w \in Slots : PoolReturn(w)

\* the worker thread is scheduled whenever it can take a step and every
\* task_func call returns or raises; the request threads and the pool
\* threads are under no fairness condition
SpecFair == Init /\ [][NextFair]_vars /\ WF_vars(WorkerStep)

\* C17: once a job is admitted it runs to completion: every job put on the
\* queue is eventually dequeued, executed and marked done, whatever happened
\* to earlier jobs and whatever the state of notification delivery.
C17_AdmittedJobCompletes ==
    \A j \in Requests : (j \in Range(put_order)) ~> Finished(j)

\* a job whose predecessor returned a malformed result (it had a callback
\* URL and nothing was submitted for it) is marked done while the pool still
\* works on a notification
C17_Witness ==
    /\ Len(start_order) = 2
    /\ Finished(start_order[2])
    /\ Active(start_order[1])
    /\ WantsWebhook(req[start_order[1]].data)
    /\ submitted[start_order[1]] = 0
    /\ \E w \in Slots : pool[w].state \in {"attempt", "sleep"}

\* the jobs the worker has dequeued and not yet marked done
Held == IF worker.pc = "get" THEN 0 ELSE 1

\* the count of unfinished tasks is the jobs waiting plus the job in the
\* worker's hands; with the worker waiting on the queue (quiescent) it is
\* the number of jobs waiting
C18_State ==
    /\ unfinished = Len(task_queue) + Held
    /\ worker.pc = "get" => unfinished = Len(task_queue)

\* task_done is called once for a dequeued job, as the last step of its
\* iteration, on every path: the count goes down by one exactly when the
\* worker leaves the job, and goes up by one exactly at a put
C18_Step ==
    /\ (worker.pc # "get" /\ worker'.pc = "get") => unfinished' = unfinished - 1
    /\ unfinished' < unfinished => (worker.pc = "task_done" /\ worker'.pc = "get")
    /\ unfinished' > unfinished => Len(put_order') = Len(put_order) + 1

\* C18: for every job the worker loop dequeues the queue slot is marked
\* consumed exactly once on every path, so in every quiescent state the
\* count of unfinished tasks equals the number of jobs waiting in the queue.
C18_TaskDoneExactlyOnce == []C18_State /\ [][C18_Step]_vars

\* both jobs were dequeued and marked done, the first after an error of the
\* envelope: the count is back at 0
C18_Witness ==
    /\ Len(start_order) = 2
    /\ worker.pc = "get"
    /\ task_queue = <<>>
    /\ unfinished = 0
    /\ Active(start_order[1])
    /\ WantsWebhook(req[start_order[1]].data)
    /\ submitted[start_order[1]] = 0

\* response, message and code of envelope e agree with the work's result:
\* the body is the response when the code is 200 and the message otherwise
EnvelopeOf(e, result) ==
    /\ e.code = result[3]
    /\ result[3] = 200 => (e.response = result[1] /\ e.message = "success")
    /\ result[3] # 200 => (e.response = None /\ e.message = result[1])

\* every envelope built on the bypass path and in the worker loop, for a
\* result the work returned and for the result that stands for a raise
C19_Step ==
    /\ \A r \in Requests, o \in Outcomes, d \in Elapsed :
          (BypassReturn(r, o, d) /\ resp'[r].kind = "returned")
          => /\ ~o.raises
             /\ EnvelopeOf(resp'[r].body, o.result)
             /\ resp'[r].status = o.result[3]
    /\ \A o \in Outcomes, d \in Elapsed, g \in Elapsed :
          (TaskReturn(o, d, g) /\ worker'.pc = "submit")
          => EnvelopeOf(worker'.response_data,
                        IF o.raises THEN <<o.text, "error", 500>> ELSE o.result)

\* an envelope has response = null exactly when its code is not 200
C19_State ==
    /\ \A r \in Requests :
          (resp[r].kind = "returned" /\ resp[r].status \notin {202, 429})
          => (resp[r].body.response = None <=> resp[r].body.code # 200)
    /\ worker.pc = "submit"
          => (worker.response_data.response = None
                <=> worker.response_data.code # 200)

\* C19: in every result envelope, on the bypass path and in the worker loop,
\* response is the work's result body when the code is 200 and null
\* otherwise, message is "success" when the code is 200 and the result body
\* otherwise, and code is the work's status code.
C19_EnvelopeResponseAndMessage == []C19_State /\ [][C19_Step]_vars

\* the worker holds the envelope of a result with code 400 while a bypass
\* request holds the envelope of a result with code 200
C19_Witness ==
    /\ worker.pc = "submit"
    /\ worker.response_data.code = 400
    /\ worker.response_data.response = None
    /\ worker.response_data.message = "bad input"
    /\ \E r \in Requests :
          /\ resp[r].kind = "returned"
          /\ resp[r].status = 200
          /\ resp[r].body.response = "ok"
          /\ resp[r].body.message = "success"

\* a bypass-eligible request is never at the overflow check, the put or one
\* of their answers, is not among the jobs put, and is not answered 202/429
C20_State ==
    \A r \in Requests :
        (Active(r) /\ BypassEligible(r))
        => /\ req[r].pc \in {"bypass", "done"}
           /\ r \notin Range(put_order)
           /\ r \notin Waiting
           /\ resp[r].status \notin {202, 429}

\* the steps of a request on the bypass path leave the queue as it is
C20_Step ==
    \A r \in Requests :
        (req'[r] # req[r] /\ (req[r].pc = "bypass" \/ req'[r].pc = "bypass"))
        => /\ task_queue' = task_queue
           /\ unfinished' = unfinished
           /\ put_order' = put_order
           /\ start_order' = start_order

C21_WaitsOnlyBetweenAttempts ==
    \A w \in Slots :
        /\ pool[w].state = "sleep" => pool[w].attempt + 1 < max_retries
        /\ Len(pool[w].sleeps) <= max_retries - 1
        /\ pool[w].state = "exhausted"
             => Len(pool[w].sleeps) = max_retries - 1

\* C22: for capacity C > 0 the number of jobs waiting in the queue is at most
\* C in every reachable state, for any interleaving of admissions and the
\* worker loop, so the admitted jobs not yet finished are at most C + 1.
C22_DepthWithinCapacity ==
    MAX_QUEUE_LENGTH > 0
    => /\ qsize <= MAX_QUEUE_LENGTH
       /\ unfinished <= MAX_QUEUE_LENGTH + 1
       /\ Len(put_order) - Cardinality({j \in Requests : Finished(j)})
            <= MAX_QUEUE_LENGTH + 1

\* two admissions passed the capacity check at depth C - 1; one has put its
\* job, the queue is full, and the other is at its put
C22_Witness ==
    /\ MAX_QUEUE_LENGTH > 0
    /\ qsize = MAX_QUEUE_LENGTH
    /\ \E r \in Requests :
          /\ req[r].pc = "put"
          /\ req[r].depth_seen = MAX_QUEUE_LENGTH - 1
    /\ \E r \in Requests :
          /\ req[r].pc \in {"respond", "done"}
          /\ req[r].depth_seen = MAX_QUEUE_LENGTH - 1
          /\ r \in Waiting

(* --------- download route: download_video (routes/.../yt_dlp.py) -------- *)

\* DEFAULT_REQUEST_TIMEOUT = int(os.getenv('REQUEST_TIMEOUT', 60))
DEFAULT_REQUEST_TIMEOUT == 60

\* lines 23-61
ALLOWED_OPTIONS ==
    {"format", "format_sort", "format_sort_force", "video_multistreams",
     "audio_multistreams", "prefer_free_formats", "check_formats",
     "check_all_formats", "prefer_insecure",
     "playlist_items", "min_filesize", "max_filesize", "date", "datebefore",
     "dateafter", "match_filter", "no_playlist", "yes_playlist", "age_limit",
     "download_archive", "break_on_existing", "break_on_reject",
     "skip_playlist_after_errors",
     "limit_rate", "retries", "fragment_retries", "skip_unavailable_fragments",
     "keep_fragments", "buffer_size", "resize_buffer", "http_chunk_size",
     "playlist_reverse", "playlist_random", "xattr_set_filesize",
     "hls_use_mpegts", "download_sections",
     "username", "password", "videopassword", "ap_mso", "ap_username",
     "ap_password", "client_certificate", "client_certificate_key",
     "client_certificate_password",
     "extract_audio", "audio_format", "audio_quality", "remux_video",
     "recode_video", "postprocessor_args", "keep_video", "no_keep_video",
     "post_overwrites", "embed_subs", "embed_thumbnail", "embed_metadata",
     "embed_chapters", "embed_info_json", "parse_metadata",
     "write_description", "write_info_json", "write_thumbnail",
     "write_all_thumbnails",
     "sponsorblock_mark", "sponsorblock_remove", "sponsorblock_chapter_title",
     "sponsorblock_api",
     "output_na_placeholder", "restrict_filenames", "no_overwrites",
     "continue", "part", "mtime", "write_comments"}

\* the JSON bodies a caller sends: none, {}, and objects with some of the
\* keys url, options (the set of its keys) and webhook_url
RouteBodies ==
    { [present |-> FALSE, fields |-> {}, options |-> {}, webhook_url |-> ""],
      [present |-> TRUE, fields |-> {}, options |-> {}, webhook_url |-> ""],
      [present |-> TRUE, fields |-> {"options", "webhook_url"},
       options |-> {"format"}, webhook_url |-> "http://x/cb"],
      [present |-> TRUE, fields |-> {"url"}, options |-> {},
       webhook_url |-> ""],
      [present |-> TRUE, fields |-> {"url", "options"},
       options |-> {"format", "retries"}, webhook_url |-> ""],
      [present |-> TRUE, fields |-> {"url", "options", "webhook_url"},
       options |-> {"format", "exec"}, webhook_url |-> "http://x/cb"],
      [present |-> TRUE, fields |-> {"url", "options", "webhook_url"},
       options |-> {"format"}, webhook_url |-> "http://x/cb"] }

\* the seconds between start_time and the reading of line 160
RouteElapsed == {0, 60, 61}

\* the state of queue, worker, pool and startup, which the route never touches
Core == <<environ, startup, MAX_QUEUE_LENGTH, task_queue, unfinished, req, resp,
          worker, work_queue, pool, submitted, put_order, start_order>>

\* config.py lines 40-52: validate_env_vars(provider) raises ValueError
MissingVars(provider) ==
    {v \in (IF provider = "S3"
              THEN {"S3_ENDPOINT_URL", "S3_ACCESS_KEY", "S3_SECRET_KEY",
                    "S3_BUCKET_NAME"}
              ELSE {"GCP_BUCKET_NAME", "GCP_SA_CREDENTIALS"}) : ~storage_env[v]}

\* config.py lines 100-116: get_storage_provider() raises
StorageProviderRaises ==
    IF storage_env["S3_BUCKET_NAME"]
      THEN MissingVars("S3") # {}
      ELSE MissingVars("GCP") # {}

\* lines 63-67: validate_options(opts) raises ValueError
validate_options(opts) == opts \ ALLOWED_OPTIONS # {}

\* line 137: not data or 'url' not in data
UrlMissing(data) == ~data.present \/ data.fields = {} \/ "url" \notin data.fields

\* line 145: data.get('options', {})
OptionsOf(data) == IF "options" \in data.fields THEN data.options ELSE {}

\* the route returns jsonify(...), status
RouteAnswer(status, error) ==
    route' = [route EXCEPT !.pc = "done", !.status = status, !.error = error]

\* line 122: the route is called with a body; elapsed = the time its
\* validation will have taken at line 160
Receive(data, elapsed) ==
    /\ route.pc = "idle"
    /\ route' = [IdleRoute EXCEPT !.pc = "storage", !.data = data,
                                  !.elapsed = elapsed]
    /\ UNCHANGED <<storage_env, Core>>

\* lines 124-133: get_storage_provider(); its failure is answered 500
GetStorage ==
    /\ route.pc = "storage"
    /\ IF StorageProviderRaises
         THEN RouteAnswer(500, "Storage provider initialization failed")
         ELSE route' = [route EXCEPT !.pc = "validate"]
    /\ UNCHANGED <<storage_env, Core>>

\* lines 136-157: the body and the options are validated
Validate ==
    /\ route.pc = "validate"
    /\ IF UrlMissing(route.data)
         THEN RouteAnswer(400, "URL is required in request body")
         ELSE IF validate_options(OptionsOf(route.data))
           THEN RouteAnswer(400, "Invalid options provided")
           ELSE route' = [route EXCEPT !.pc = "timeout"]
    /\ UNCHANGED <<storage_env, Core>>

\* lines 160-165: the request timeout
CheckTimeout ==
    /\ route.pc = "timeout"
    /\ IF route.elapsed > DEFAULT_REQUEST_TIMEOUT
         THEN RouteAnswer(408, "Request timeout")
         ELSE route' = [route EXCEPT !.pc = "download"]
    /\ UNCHANGED <<storage_env, Core>>

\* lines 191-194, 224-240: ydl.extract_info(url, download=True) returns, or
\* raises DownloadError (400) or another exception (500)
Download(outcome) ==
    /\ route.pc = "download"
    /\ route' = [route EXCEPT
                   !.downloads = @ + 1,
                   !.pc = IF outcome = "ok" THEN "upload" ELSE "done",
                   !.status = IF outcome = "ok" THEN 0
                              ELSE IF outcome = "DownloadError" THEN 400
                              ELSE 500,
                   !.error = IF outcome = "ok" THEN ""
                             ELSE IF outcome = "DownloadError"
                               THEN "Download failed"
                               ELSE "Processing failed"]
    /\ UNCHANGED <<storage_env, Core>>

\* lines 197, 233-240: upload_to_storage returns the URL or raises (500)
Upload(ok) ==
    /\ route.pc = "upload"
    /\ route' = [route EXCEPT
                   !.uploads = @ + 1,
                   !.pc = IF ok THEN "webhook" ELSE "done",
                   !.status = IF ok THEN 0 ELSE 500,
                   !.error = IF ok THEN "" ELSE "Processing failed"]
    /\ UNCHANGED <<storage_env, Core>>

\* lines 214-222: requests.post to a truthy webhook_url (a failure is only
\* logged), then the answer 200
Webhook ==
    /\ route.pc = "webhook"
    /\ route' = [route EXCEPT
                   !.webhooks = IF "webhook_url" \in route.data.fields
                                   /\ route.data.webhook_url # ""
                                  THEN @ + 1 ELSE @,
                   !.pc = "done",
                   !.status = 200]
    /\ UNCHANGED <<storage_env, Core>>

NextRoute ==
    \/ \E data \in RouteBodies, elapsed \in RouteElapsed : Receive(data, elapsed)
    \/ GetStorage
    \/ Validate
    \/ CheckTimeout
    \/ \E outcome \in {"ok", "DownloadError", "Exception"} : Download(outcome)
    \/ \E ok \in BOOLEAN : Upload(ok)
    \/ Webhook

\* the route is called in any environment of the storage variables
InitRoute ==
    /\ storage_env \in [StorageVars -> BOOLEAN]
    /\ route = IdleRoute
    /\ environ = [MAX_QUEUE_LENGTH |-> Unset, MAX_WORKERS |-> ToString(MAX_WORKERS)]
    /\ MAX_QUEUE_LENGTH = parse_queue_length(Unset).value
    /\ startup = Running
    /\ Constructed

SpecRoute == InitRoute /\ [][NextRoute]_vars

\* the body is missing or lacks url, or its options hold a key outside
\* ALLOWED_OPTIONS
Malformed(data) ==
    \/ ~data.present
    \/ "url" \notin data.fields
    \/ ("options" \in data.fields /\ data.options \ ALLOWED_OPTIONS # {})

\* C23: in the yt-dlp download route a request whose body is missing or lacks
\* url, or whose options contain a key outside ALLOWED_OPTIONS, is answered
\* with status 400 and no work is started for it: no download, no upload and
\* no webhook call.
C23_MalformedAnswered400 ==
    (route.pc # "idle" /\ Malformed(route.data))
    => /\ route.downloads = 0
       /\ route.uploads = 0
       /\ route.webhooks = 0
       /\ route.pc = "done" => route.status = 400

====
